---- MODULE Spec2Model ----
(***************************************************************************)
(* Model of tests/tester.py, the grading harness of the calculator         *)
(* exercise: capability detection (check_for_function, check_for_string),  *)
(* the aggregated "case" value, the dispatch on it, and check_run.         *)
(*                                                                         *)
(* Text is modelled as a sequence of one-character strings, so that        *)
(* str.strip() and '\n'.join() are computed and not assumed.  The text of  *)
(* calculator.py is modelled by the set of probe literals that occur in    *)
(* it (none of the seven literals is a substring of another, so every      *)
(* subset is the literal set of some source text).                         *)
(*                                                                         *)
(* Environment: calculator.py and the fixture files exist and are          *)
(* readable text; importlib finds a loader for "calculator.py", so         *)
(* spec_from_file_location never returns None.                             *)
(***************************************************************************)
EXTENDS Integers, Sequences, FiniteSets, TLC

VARIABLES
    \* the target program calculator.py
    loading,        \* what executing its top-level code does: "ok", "raises" (any Exception), "exits" (SystemExit)
    exit_request,   \* the status its top-level code asks to exit with, when loading = "exits"
    defined,        \* the names the module has after a successful load
    literals,       \* the probe literals that occur in its source text, as it is on disk now
    edits,          \* number of times the source text was changed on disk during the run
    \* the harness
    pc,             \* position of the harness
    flagIdx,        \* the flag main() is computing (index into FlagNames)
    probeIdx,       \* the operand of that flag's "and" chain being evaluated
    have,           \* the have_* variables assigned so far
    _file_string_cache,
    case,           \* the aggregated value, -1 until assigned
    plan,           \* the check_run calls of the branch taken in main()
    callIdx,        \* the check_run call main() is at
    expected_results_file, count, args,   \* check_run's parameters
    i, outputs, rc, output, actual_output, expected_output, \* check_run's locals
    lastlog,        \* the last error- or success-level line logged
    exitStatus,     \* the exit status of the harness process, -1 while it runs
    \* observations
    loads,          \* number of exec_module attempts
    fileReads,      \* the texts that reads of the source file from disk returned, in order
    results,        \* the probes that returned, with their results
    calls,          \* the check_run calls started
    invocations,    \* the commands run, in order, each with the exit status it returned
    captured,       \* raw output of the invocations of the current check_run whose exit code was checked
    compared,       \* the fixture files read, in order, each with the result of its comparison
    \* the harness run a second time
    run,            \* 1 in the first run of the harness, 2 in the second
    behaviour,      \* what the target did in the first run: command |-> exit status and output
    fixtures,       \* what the fixture files held in the first run: file |-> text, stripped
    first           \* what the first run decided, once it is over

target  == <<loading, exit_request, defined, literals, edits>>
locals  == <<expected_results_file, count, args, i, outputs, rc, output, actual_output,
             expected_output>>
detect  == <<flagIdx, probeIdx, have, _file_string_cache, loads, fileReads, results>>
observe == <<calls, invocations, captured, compared>>
twice   == <<run, behaviour, fixtures, first>>
vars    == <<target, pc, detect, case, plan, callIdx, locals, lastlog, exitStatus, observe, twice>>

----------------------------------------------------------------------------
(* Bounds *)

\* the target's output is free over the first MaxVaried invocations of a
\* check_run and periodic with that period afterwards
MaxVaried == 2

\* the source text changes on disk at most MaxEdits times while the harness runs
MaxEdits == 1

----------------------------------------------------------------------------
(* Text *)

Whitespace == {" ", "\n"}

\* the positions of s that hold no whitespace
Inked(s) == {k \in 1..Len(s) : s[k] \notin Whitespace}

\* str.strip(): s from its first to its last character that is not whitespace
Strip(s) ==
    IF Inked(s) = {} THEN << >>
    ELSE SubSeq(s, CHOOSE k \in Inked(s) : \A j \in Inked(s) : k <= j,
                   CHOOSE k \in Inked(s) : \A j \in Inked(s) : k >= j)

\* '\n'.join(list), split in halves to keep the evaluation shallow
RECURSIVE Join(_)
Join(list) ==
    IF list = << >> THEN << >>
    ELSE IF Len(list) = 1 THEN list[1]
    ELSE LET half == Len(list) \div 2
         IN  Join(SubSeq(list, 1, half)) \o <<"\n">> \o Join(SubSeq(list, half + 1, Len(list)))

\* what one run of the target may print (stdout and stderr combined)
Outs == { <<>>, <<"\n">>, <<"x", "\n">>, <<" ", "y">> }

\* exit statuses of one run of the target
ReturnCodes == {0, 1}

\* a fixture file holds the text this run produced, framed by incidental
\* whitespace, or some other text
FixtureTexts(actual) ==
    { actual \o <<"\n">>, <<" ">> \o actual, actual \o <<"\n", "z", "\n">>, <<"z">> }

----------------------------------------------------------------------------
(* Capability detection *)

source == "calculator.py"

FunctionNames == {"add", "subtract", "main", "divide", "multiply"}

Literals == {"Adding then subtracting!", "Subtracting then adding!",
             "import logging", "logging.basicConfig",
             "import argparse", "--debug", "--seed"}

\* have_divmul computed after have_addsub
FlagNamesDivmulLate == <<"have_original", "have_addsub", "have_divmul",
                         "have_logging", "have_debug", "have_seed">>

\* the flags, in the order main() computes them
FlagNames == <<"have_original", "have_divmul", "have_addsub",
               "have_logging", "have_debug", "have_seed">>

Fn(name) == [kind |-> "function", arg |-> name]
St(text) == [kind |-> "string", arg |-> text]

\* have_seed looked for only in a source that has "--debug"
ProbesSeedAfterDebug ==
    [ have_original |-> <<Fn("add"), Fn("subtract"), Fn("main")>>,
      have_divmul   |-> <<Fn("divide"), Fn("multiply")>>,
      have_addsub   |-> <<St("Adding then subtracting!"), St("Subtracting then adding!")>>,
      have_logging  |-> <<St("import logging"), St("logging.basicConfig")>>,
      have_debug    |-> <<St("import argparse"), St("--debug")>>,
      have_seed     |-> <<St("import argparse"), St("--debug"), St("--seed")>> ]

\* the operands of each flag's "and" chain, in evaluation order
Probes ==
    [ have_original |-> <<Fn("add"), Fn("subtract"), Fn("main")>>,
      have_divmul   |-> <<Fn("divide"), Fn("multiply")>>,
      have_addsub   |-> <<St("Adding then subtracting!"), St("Subtracting then adding!")>>,
      have_logging  |-> <<St("import logging"), St("logging.basicConfig")>>,
      have_debug    |-> <<St("import argparse"), St("--debug")>>,
      have_seed     |-> <<St("import argparse"), St("--seed")>> ]

Flag  == FlagNames[flagIdx]
Probe == Probes[Flag][probeIdx]

\* int(b)
Int01(b) == IF b THEN 1 ELSE 0

\* have_seed packed with have_debug's weight
CaseOfSharedWeight(h) ==
    Int01(h["have_original"]) * 1  +
    Int01(h["have_divmul"])   * 2  +
    Int01(h["have_addsub"])   * 4  +
    Int01(h["have_logging"])  * 8  +
    Int01(h["have_debug"])    * 16 +
    Int01(h["have_seed"])     * 16

CaseOf(h) ==
    Int01(h["have_original"]) * 1  +
    Int01(h["have_divmul"])   * 2  +
    Int01(h["have_addsub"])   * 4  +
    Int01(h["have_logging"])  * 8  +
    Int01(h["have_debug"])    * 16 +
    Int01(h["have_seed"])     * 32

----------------------------------------------------------------------------
(* Dispatch *)

ITERATION == "{i}"

CheckRunCall(file, n, a) == [file |-> file, count |-> n, args |-> a]

\* the seeded check_run made whatever "seed" says
_run_multipleAlwaysSeeded(base, seed) ==
    << CheckRunCall(base \o ".txt", 1, <<>>),
       CheckRunCall(base \o "-debug.txt", 1, <<"--debug">>),
       CheckRunCall(base \o "-seeds.txt", 100, <<"--debug", ITERATION>>) >>

_run_multiple(base, seed) ==
    << CheckRunCall(base \o ".txt", 1, <<>>),
       CheckRunCall(base \o "-debug.txt", 1, <<"--debug">>) >>
    \o (IF seed
        THEN << CheckRunCall(base \o "-seeds.txt", 100, <<"--debug", ITERATION>>) >>
        ELSE << >>)

base == "tests/expected-results"

\* the final else branch falling back to the baseline scenario
ScenarioWithDefault(c) ==
    CASE c = 1  -> << CheckRunCall(base \o "-1-original.txt", 1, <<>>) >>
      [] c = 3  -> << CheckRunCall(base \o "-3-divmul.txt", 1, <<>>) >>
      [] c = 5  -> << CheckRunCall(base \o "-5-addsub.txt", 1, <<>>) >>
      [] c = 9  -> << CheckRunCall(base \o "-9-logging.txt", 1, <<>>) >>
      [] c = 25 -> _run_multiple(base \o "-25-logging", FALSE)
      [] c = 57 -> _run_multiple(base \o "-57-seed", TRUE)
      [] c = 59 -> _run_multiple(base \o "-59-divmul", TRUE)
      [] c = 61 -> _run_multiple(base \o "-61-addsub", TRUE)
      [] c = 63 -> _run_multiple(base \o "-63-all", TRUE)
      [] OTHER  -> << CheckRunCall(base \o "-1-original.txt", 1, <<>>) >>

\* the branch of case 25 asking for the seeded runs
ScenarioSeededAt25(c) ==
    CASE c = 1  -> << CheckRunCall(base \o "-1-original.txt", 1, <<>>) >>
      [] c = 3  -> << CheckRunCall(base \o "-3-divmul.txt", 1, <<>>) >>
      [] c = 5  -> << CheckRunCall(base \o "-5-addsub.txt", 1, <<>>) >>
      [] c = 9  -> << CheckRunCall(base \o "-9-logging.txt", 1, <<>>) >>
      [] c = 25 -> _run_multiple(base \o "-25-logging", TRUE)
      [] c = 57 -> _run_multiple(base \o "-57-seed", TRUE)
      [] c = 59 -> _run_multiple(base \o "-59-divmul", TRUE)
      [] c = 61 -> _run_multiple(base \o "-61-addsub", TRUE)
      [] c = 63 -> _run_multiple(base \o "-63-all", TRUE)
      [] OTHER  -> << >>

\* the check_run calls of the branch main() takes for a case value;
\* the empty sequence stands for the final else branch
Scenario(c) ==
    CASE c = 1  -> << CheckRunCall(base \o "-1-original.txt", 1, <<>>) >>
      [] c = 3  -> << CheckRunCall(base \o "-3-divmul.txt", 1, <<>>) >>
      [] c = 5  -> << CheckRunCall(base \o "-5-addsub.txt", 1, <<>>) >>
      [] c = 9  -> << CheckRunCall(base \o "-9-logging.txt", 1, <<>>) >>
      [] c = 25 -> _run_multiple(base \o "-25-logging", FALSE)
      [] c = 57 -> _run_multiple(base \o "-57-seed", TRUE)
      [] c = 59 -> _run_multiple(base \o "-59-divmul", TRUE)
      [] c = 61 -> _run_multiple(base \o "-61-addsub", TRUE)
      [] c = 63 -> _run_multiple(base \o "-63-all", TRUE)
      [] OTHER  -> << >>

\* the seed taken from the 0-based loop index
RECURSIVE CmdZeroBased(_, _)
CmdZeroBased(a, idx) ==
    IF a = <<>> THEN <<"python3", "./calculator.py">>
    ELSE LET front == CmdZeroBased(SubSeq(a, 1, Len(a) - 1), idx)
             arg   == a[Len(a)]
         IN  IF arg = ITERATION
             THEN front \o <<"--seed", ToString(idx)>>
             ELSE Append(front, arg)

\* the command line check_run builds for iteration idx (0-based)
RECURSIVE Cmd(_, _)
Cmd(a, idx) ==
    IF a = <<>> THEN <<"python3", "./calculator.py">>
    ELSE LET front == Cmd(SubSeq(a, 1, Len(a) - 1), idx)
             arg   == a[Len(a)]
         IN  IF arg = ITERATION
             THEN front \o <<"--seed", ToString(idx + 1)>>
             ELSE Append(front, arg)

----------------------------------------------------------------------------
(* Initial state *)

Init ==
    /\ loading \in {"ok", "raises", "exits"}
    /\ exit_request \in (IF loading = "exits" THEN {0, 1} ELSE {0})
    /\ defined \in (IF loading = "ok" THEN SUBSET FunctionNames ELSE {{}})
    /\ literals \in SUBSET Literals
    /\ edits = 0
    /\ pc = "detect"
    /\ flagIdx = 1
    /\ probeIdx = 1
    /\ have = << >>
    /\ _file_string_cache = << >>
    /\ case = -1
    /\ plan = << >>
    /\ callIdx = 1
    /\ expected_results_file = ""
    /\ count = 0
    /\ args = << >>
    /\ i = 0
    /\ outputs = << >>
    /\ rc = 0
    /\ output = << >>
    /\ actual_output = << >>
    /\ expected_output = << >>
    /\ lastlog = ""
    /\ exitStatus = -1
    /\ loads = 0
    /\ fileReads = << >>
    /\ results = << >>
    /\ calls = << >>
    /\ invocations = << >>
    /\ captured = << >>
    /\ compared = << >>
    /\ run = 1
    /\ behaviour = << >>
    /\ fixtures = << >>
    /\ first = << >>

----------------------------------------------------------------------------
(* Actions *)

\* a probe returned "found" to the "and" chain of the flag being computed
ProbeReturns(found) ==
    /\ results' = Append(results, [flag |-> Flag, probe |-> Probe, found |-> found])
    /\ IF found /\ probeIdx < Len(Probes[Flag])
       THEN /\ probeIdx' = probeIdx + 1
            /\ UNCHANGED <<flagIdx, have, pc>>
       ELSE /\ have' = have @@ (Flag :> found)
            /\ flagIdx' = flagIdx + 1
            /\ probeIdx' = 1
            /\ pc' = IF flagIdx = Len(FlagNames) THEN "case" ELSE "detect"

check_for_function ==
    /\ pc = "detect"
    /\ Probe.kind = "function"
    /\ loads' = loads + 1
    /\ IF loading = "exits"
       THEN \* SystemExit is not an Exception: it leaves check_for_function and main()
            /\ pc' = "exited"
            /\ exitStatus' = exit_request
            /\ UNCHANGED <<flagIdx, probeIdx, have, results, lastlog>>
       ELSE /\ IF loading = "raises"
               THEN /\ lastlog' = "Error loading"
                    /\ ProbeReturns(FALSE)
               ELSE /\ UNCHANGED lastlog
                    /\ ProbeReturns(Probe.arg \in defined)
            /\ UNCHANGED exitStatus
    /\ UNCHANGED <<target, _file_string_cache, fileReads, case, plan, callIdx, locals, observe>>

\* the file read at every call, the cache written and never consulted
check_for_stringUncached ==
    /\ pc = "detect"
    /\ Probe.kind = "string"
    /\ _file_string_cache' = (source :> literals)
    /\ fileReads' = Append(fileReads, literals)
    /\ ProbeReturns(Probe.arg \in literals)
    /\ UNCHANGED <<target, loads, case, plan, callIdx, locals, lastlog, exitStatus, observe>>

check_for_string ==
    /\ pc = "detect"
    /\ Probe.kind = "string"
    /\ LET cached  == source \in DOMAIN _file_string_cache
           content == IF cached THEN _file_string_cache[source] ELSE literals
       IN  /\ _file_string_cache' = IF cached THEN _file_string_cache
                                    ELSE _file_string_cache @@ (source :> content)
           /\ fileReads' = IF cached THEN fileReads ELSE Append(fileReads, content)
           /\ ProbeReturns(Probe.arg \in content)
    /\ UNCHANGED <<target, loads, case, plan, callIdx, locals, lastlog, exitStatus, observe>>

ComputeCase ==
    /\ pc = "case"
    /\ case' = CaseOf(have)
    /\ pc' = "dispatch"
    /\ UNCHANGED <<target, detect, plan, callIdx, locals, lastlog, exitStatus, observe>>

Dispatch ==
    /\ pc = "dispatch"
    /\ IF Scenario(case) # << >>
       THEN /\ plan' = Scenario(case)
            /\ callIdx' = 1
            /\ pc' = "call"
            /\ UNCHANGED <<lastlog, exitStatus>>
       ELSE /\ lastlog' = "Did not find a valid testing scenario -- fail"
            /\ exitStatus' = 1
            /\ pc' = "exited"
            /\ UNCHANGED <<plan, callIdx>>
    /\ UNCHANGED <<target, detect, case, locals, observe>>

\* main() calls check_run: a new frame, whose locals are not yet bound
StartCheckRun ==
    /\ pc = "call"
    /\ callIdx <= Len(plan)
    /\ expected_results_file' = plan[callIdx].file
    /\ count' = plan[callIdx].count
    /\ args' = plan[callIdx].args
    /\ outputs' = << >>
    /\ i' = 0
    /\ calls' = Append(calls, plan[callIdx])
    /\ captured' = << >>
    /\ rc' = 0
    /\ output' = << >>
    /\ actual_output' = << >>
    /\ expected_output' = << >>
    /\ pc' = IF plan[callIdx].count > 0 THEN "run" ELSE "join"
    /\ UNCHANGED <<target, detect, case, plan, callIdx, lastlog, exitStatus,
                   invocations, compared>>

\* subprocess.run
Invoke ==
    /\ pc = "run"
    /\ rc' \in ReturnCodes
    /\ invocations' = Append(invocations, [cmd |-> Cmd(args, i), returncode |-> rc'])
    /\ output' \in (IF i < MaxVaried THEN Outs ELSE {captured[i - MaxVaried + 1]})
    /\ pc' = "checkrc"
    /\ UNCHANGED <<target, detect, case, plan, callIdx, expected_results_file, count, args,
                   i, outputs, actual_output, expected_output, lastlog, exitStatus, calls,
                   captured, compared>>

\* the non-zero exit status logged, the loop going on
CheckReturnCodeLogsOnly ==
    /\ pc = "checkrc"
    /\ lastlog' = IF rc # 0 THEN "Command returned non-zero exit status" ELSE lastlog
    /\ pc' = "capture"
    /\ UNCHANGED <<target, detect, case, plan, callIdx, locals, exitStatus, observe>>

CheckReturnCode ==
    /\ pc = "checkrc"
    /\ IF rc # 0
       THEN /\ lastlog' = "Command returned non-zero exit status"
            /\ exitStatus' = 1
            /\ pc' = "exited"
       ELSE /\ pc' = "capture"
            /\ UNCHANGED <<lastlog, exitStatus>>
    /\ UNCHANGED <<target, detect, case, plan, callIdx, locals, observe>>

\* every captured output appended as it is
AppendedUnstripped(outs, o) == IF o # << >> THEN Append(outs, o) ELSE outs

\* "outputs" after "if output: outputs.append(output.strip())"
Appended(outs, o) == IF o # << >> THEN Append(outs, Strip(o)) ELSE outs

\* the loop left after its first iteration, the comparison following at once
CaptureOutputCompareEarly ==
    /\ pc = "capture"
    /\ outputs' = Appended(outputs, output)
    /\ captured' = Append(captured, output)
    /\ i' = i + 1
    /\ pc' = "join"
    /\ UNCHANGED <<target, detect, case, plan, callIdx, expected_results_file, count, args,
                   rc, output, actual_output, expected_output, lastlog, exitStatus, calls,
                   invocations, compared>>

CaptureOutput ==
    /\ pc = "capture"
    /\ outputs' = Appended(outputs, output)
    /\ captured' = Append(captured, output)
    /\ i' = i + 1
    /\ pc' = IF i + 1 < count THEN "run" ELSE "join"
    /\ UNCHANGED <<target, detect, case, plan, callIdx, expected_results_file, count, args,
                   rc, output, actual_output, expected_output, lastlog, exitStatus, calls,
                   invocations, compared>>

JoinOutputs ==
    /\ pc = "join"
    /\ actual_output' = Strip(Join(outputs))
    /\ pc' = "compare"
    /\ UNCHANGED <<target, detect, case, plan, callIdx, expected_results_file, count, args,
                   i, outputs, rc, output, expected_output, lastlog, exitStatus, observe>>

\* the mismatch logged, check_run returning to main() all the same
CompareLogsOnly ==
    /\ pc = "compare"
    /\ \E text \in FixtureTexts(actual_output) : expected_output' = Strip(text)
    /\ compared' = Append(compared, [file  |-> expected_results_file,
                                     equal |-> expected_output' = actual_output])
    /\ lastlog' = IF expected_output' # actual_output THEN "Test failure" ELSE lastlog
    /\ callIdx' = callIdx + 1
    /\ pc' = "call"
    /\ UNCHANGED <<target, detect, case, plan, expected_results_file, count, args, i, outputs,
                   rc, output, actual_output, exitStatus, calls, invocations, captured>>

Compare ==
    /\ pc = "compare"
    /\ \E text \in FixtureTexts(actual_output) : expected_output' = Strip(text)
    /\ compared' = Append(compared, [file  |-> expected_results_file,
                                     equal |-> expected_output' = actual_output])
    /\ IF expected_output' # actual_output
       THEN /\ lastlog' = "Test failure"
            /\ exitStatus' = 1
            /\ pc' = "exited"
            /\ UNCHANGED callIdx
       ELSE /\ callIdx' = callIdx + 1
            /\ pc' = "call"
            /\ UNCHANGED <<lastlog, exitStatus>>
    /\ UNCHANGED <<target, detect, case, plan, expected_results_file, count, args, i, outputs,
                   rc, output, actual_output, calls, invocations, captured>>

Success ==
    /\ pc = "call"
    /\ callIdx > Len(plan)
    /\ lastlog' = "SUCCESS!"
    /\ exitStatus' = 0
    /\ pc' = "exited"
    /\ UNCHANGED <<target, detect, case, plan, callIdx, locals, observe>>

\* one run of the harness
Next ==
    \/ check_for_function /\ UNCHANGED twice
    \/ check_for_string /\ UNCHANGED twice
    \/ ComputeCase /\ UNCHANGED twice
    \/ Dispatch /\ UNCHANGED twice
    \/ StartCheckRun /\ UNCHANGED twice
    \/ Invoke /\ UNCHANGED twice
    \/ CheckReturnCode /\ UNCHANGED twice
    \/ CaptureOutput /\ UNCHANGED twice
    \/ JoinOutputs /\ UNCHANGED twice
    \/ Compare /\ UNCHANGED twice
    \/ Success /\ UNCHANGED twice

Spec == Init /\ [][Next]_vars

----------------------------------------------------------------------------
(* Detection over a source file that changes on disk while the harness runs *)

\* something outside the harness rewrites calculator.py: one probe literal
\* appears in the text or disappears from it
EditSource ==
    /\ pc = "detect"
    /\ edits < MaxEdits
    /\ edits' = edits + 1
    /\ \E l \in Literals :
          literals' = IF l \in literals THEN literals \ {l} ELSE literals \cup {l}
    /\ UNCHANGED <<loading, exit_request, defined, pc, detect, case, plan, callIdx, locals,
                   lastlog, exitStatus, observe>>

InitCache ==
    /\ Init
    /\ loading = "ok"
    /\ defined = FunctionNames

NextCache ==
    \/ check_for_function /\ UNCHANGED twice
    \/ check_for_string /\ UNCHANGED twice
    \/ EditSource /\ UNCHANGED twice
    \/ ComputeCase /\ UNCHANGED twice
    \/ Dispatch /\ UNCHANGED twice

SpecCache == InitCache /\ [][NextCache]_vars

----------------------------------------------------------------------------
(* The harness run twice on the same target.  Each run is a process of its *)
(* own: when it starts, the module globals are bound as the module text    *)
(* binds them and main() is entered.  What the two runs share is outside   *)
(* the harness: calculator.py, what it does when run, the fixture files.   *)

\* the target free to exit and print in the second run otherwise than in the first
AnyTarget ==
    LET cmd == invocations'[Len(invocations')].cmd
    IN  IF run = 1
        THEN /\ behaviour' = (cmd :> [returncode |-> rc', output |-> output']) @@ behaviour
             /\ UNCHANGED <<run, fixtures, first>>
        ELSE UNCHANGED twice

\* the target does in the second run what it did in the first: the same
\* command exits with the same status and prints the same output
SameTarget ==
    LET cmd == invocations'[Len(invocations')].cmd
    IN  IF run = 1
        THEN /\ behaviour' = (cmd :> [returncode |-> rc', output |-> output']) @@ behaviour
             /\ UNCHANGED <<run, fixtures, first>>
        ELSE /\ cmd \in DOMAIN behaviour =>
                    /\ rc' = behaviour[cmd].returncode
                    /\ output' = behaviour[cmd].output
             /\ UNCHANGED twice

\* a fixture file holds in the second run the text it held in the first
SameFixture ==
    IF run = 1
    THEN /\ fixtures' = (expected_results_file :> expected_output') @@ fixtures
         /\ UNCHANGED <<run, behaviour, first>>
    ELSE /\ expected_results_file \in DOMAIN fixtures =>
                expected_output' = fixtures[expected_results_file]
         /\ UNCHANGED twice

\* the harness is started again once its first run has ended
Restart ==
    /\ run = 1
    /\ pc = "exited"
    /\ run' = 2
    /\ first' = [case |-> case, invocations |-> invocations,
                 exitStatus |-> exitStatus, lastlog |-> lastlog]
    /\ pc' = "detect"
    /\ flagIdx' = 1
    /\ probeIdx' = 1
    /\ have' = << >>
    /\ _file_string_cache' = << >>
    /\ case' = -1
    /\ plan' = << >>
    /\ callIdx' = 1
    /\ expected_results_file' = ""
    /\ count' = 0
    /\ args' = << >>
    /\ i' = 0
    /\ outputs' = << >>
    /\ rc' = 0
    /\ output' = << >>
    /\ actual_output' = << >>
    /\ expected_output' = << >>
    /\ lastlog' = ""
    /\ exitStatus' = -1
    /\ loads' = 0
    /\ fileReads' = << >>
    /\ results' = << >>
    /\ calls' = << >>
    /\ invocations' = << >>
    /\ captured' = << >>
    /\ compared' = << >>
    /\ UNCHANGED <<target, behaviour, fixtures>>

\* what the probes find in the target
Found(probe) ==
    IF probe.kind = "function" THEN loading = "ok" /\ probe.arg \in defined
    ELSE probe.arg \in literals

\* the check_run calls main() makes for the target, if it gets that far
TargetScenario ==
    Scenario(CaseOf([f \in DOMAIN Probes |->
                        \A k \in 1..Len(Probes[f]) : Found(Probes[f][k])]))

\* the targets whose scenario runs each command once (a first run through
\* the 100 seeded invocations can end at any of them, and each such run
\* followed by a second one is beyond exhaustive search)
InitTwice ==
    /\ Init
    /\ \A k \in 1..Len(TargetScenario) : TargetScenario[k].count = 1

NextTwice ==
    \/ check_for_function /\ UNCHANGED twice
    \/ check_for_string /\ UNCHANGED twice
    \/ ComputeCase /\ UNCHANGED twice
    \/ Dispatch /\ UNCHANGED twice
    \/ StartCheckRun /\ UNCHANGED twice
    \/ Invoke /\ SameTarget
    \/ CheckReturnCode /\ UNCHANGED twice
    \/ CaptureOutput /\ UNCHANGED twice
    \/ JoinOutputs /\ UNCHANGED twice
    \/ Compare /\ SameFixture
    \/ Success /\ UNCHANGED twice
    \/ Restart

SpecTwice == InitTwice /\ [][NextTwice]_vars

----------------------------------------------------------------------------
(* Properties *)

NoScenarioLog == "Did not find a valid testing scenario -- fail"
NonZeroLog    == "Command returned non-zero exit status"
MismatchLog   == "Test failure"
SuccessLog    == "SUCCESS!"

\* the masks of the scenario table and the fixture stem of each
KnownMasks == {1, 3, 5, 9, 25, 57, 59, 61, 63}
SeededMasks == {57, 59, 61, 63}

Stem(m) ==
    CASE m = 1  -> "tests/expected-results-1-original"
      [] m = 3  -> "tests/expected-results-3-divmul"
      [] m = 5  -> "tests/expected-results-5-addsub"
      [] m = 9  -> "tests/expected-results-9-logging"
      [] m = 25 -> "tests/expected-results-25-logging"
      [] m = 57 -> "tests/expected-results-57-seed"
      [] m = 59 -> "tests/expected-results-59-divmul"
      [] m = 61 -> "tests/expected-results-61-addsub"
      [] m = 63 -> "tests/expected-results-63-all"

Dispatched == case # -1 /\ pc \notin {"detect", "case", "dispatch"}

\* C1: once main() has dispatched on the mask, a mask outside
\* {1, 3, 5, 9, 25, 57, 59, 61, 63} has ended the harness in the
\* "unrecognized scenario" failure with exit status 1, no command was run and
\* no fixture was read; a mask of the table did not take that failure, and
\* every check_run it starts uses a fixture of that mask's own scenario.
C1_UnrecognizedMaskFails ==
    Dispatched =>
        IF case \notin KnownMasks
        THEN /\ pc = "exited"
             /\ exitStatus = 1
             /\ lastlog = NoScenarioLog
             /\ invocations = << >>
             /\ compared = << >>
             /\ calls = << >>
        ELSE /\ lastlog # NoScenarioLog
             /\ plan # << >>
             /\ \A k \in 1..Len(calls) :
                   calls[k].file \in { Stem(case) \o ".txt", Stem(case) \o "-debug.txt",
                                       Stem(case) \o "-seeds.txt" }
             /\ \A k \in 1..Len(compared) : compared[k].file = calls[k].file

\* a mask made of divide/multiply and the combined messages, without the baseline
C1_Witness ==
    /\ case = 6
    /\ pc = "exited"
    /\ lastlog = NoScenarioLog

FlagSet == {FlagNames[k] : k \in 1..Len(FlagNames)}
Weight(k) == 2 ^ (k - 1)

\* C2: the mask main() computed lies in 0..63, no other tuple of the six
\* flags gives the same mask, and flipping any one flag of the tuple changes
\* the mask by exactly that flag's weight (1, 2, 4, 8, 16, 32 in flag order).
C2_MaskIsBijective ==
    pc = "dispatch" =>
        /\ case \in 0..63
        /\ \A t \in [FlagSet -> BOOLEAN] : t # have => CaseOf(t) # case
        /\ \A k \in 1..Len(FlagNames) :
              LET flipped == [have EXCEPT ![FlagNames[k]] = ~@]
              IN  CaseOf(flipped) - case = IF have[FlagNames[k]] THEN -Weight(k) ELSE Weight(k)

\* debug without seed and seed without debug are both computed
C2_Witness ==
    /\ pc = "dispatch"
    /\ have["have_seed"] /\ ~have["have_debug"]
    /\ case = 32 + 8 + 1

Digit == <<"0", "1", "2", "3", "4", "5", "6", "7", "8", "9">>

\* the decimal numeral of n
RECURSIVE Dec(_)
Dec(n) == IF n < 10 THEN Digit[n + 1] ELSE Dec(n \div 10) \o Digit[(n % 10) + 1]

SeedCmd(k) == <<"python3", "./calculator.py", "--debug", "--seed", Dec(k)>>

\* the invocations of the seeded check_run made so far
SeededRuns == Len(invocations) - 2

\* C3: in a seeded scenario (mask 57, 59, 61, 63) whose plain and debug
\* check_runs passed, the k-th invocation of the third check_run carries
\* "--debug --seed k" for k = 1, 2, ..., an invocation is started only when
\* the previous one exited zero and its output was captured, there are
\* exactly 100 of them once all have exited zero, and the joined output is
\* compared once, against "<base>-seeds.txt".
C3_SeededRunsInOrder ==
    (case \in SeededMasks /\ Len(calls) = 3) =>
        /\ SeededRuns \in 0..100
        /\ \A k \in 1..SeededRuns : invocations[k + 2].cmd = SeedCmd(k)
        /\ \A k \in 1..(SeededRuns - 1) : invocations[k + 2].returncode = 0
        /\ pc = "run" => (i = SeededRuns /\ Len(captured) = SeededRuns)
        /\ (pc \in {"join", "compare", "call"} \/ lastlog \in {MismatchLog, SuccessLog})
              => (SeededRuns = 100 /\ Len(captured) = 100)
        /\ IF pc \in {"call"} \/ lastlog \in {MismatchLog, SuccessLog}
           THEN /\ Len(compared) = 3
                /\ compared[3].file = Stem(case) \o "-seeds.txt"
           ELSE Len(compared) = 2

C3_Witness ==
    /\ case = 63
    /\ lastlog = SuccessLog
    /\ Len(invocations) = 102
    /\ invocations[102].cmd = <<"python3", "./calculator.py", "--debug", "--seed", "100">>

PlainRun(m)  == [file |-> Stem(m) \o ".txt", count |-> 1, args |-> << >>]
DebugRun(m)  == [file |-> Stem(m) \o "-debug.txt", count |-> 1, args |-> <<"--debug">>]
SeededRun(m) == [file |-> Stem(m) \o "-seeds.txt", count |-> 100, args |-> <<"--debug", "{i}">>]

\* the RunSpecs of the scenario table
RunSpecsOf(m) ==
    IF m \in {1, 3, 5, 9} THEN << PlainRun(m) >>
    ELSE IF m = 25 THEN << PlainRun(m), DebugRun(m) >>
    ELSE IF m \in SeededMasks THEN << PlainRun(m), DebugRun(m), SeededRun(m) >>
    ELSE << >>

IsPrefix(s, t) == Len(s) <= Len(t) /\ s = SubSeq(t, 1, Len(s))

\* C4: the check_runs main() starts are those the mask fixes, in order:
\* one (no arguments, "<base>.txt") for masks 1, 3, 5, 9; two (plain, then
\* "--debug" against "<base>-debug.txt") for mask 25, never a seeded one;
\* three (plain, debug, 100 seeded repetitions against "<base>-seeds.txt")
\* for masks 57, 59, 61, 63; a run that reports success made all of them.
C4_RunSpecsFixedByMask ==
    Dispatched =>
        /\ IsPrefix(calls, RunSpecsOf(case))
        /\ Len(invocations) >= 1 => invocations[1].cmd = <<"python3", "./calculator.py">>
        /\ Len(invocations) >= 2 => invocations[2].cmd = <<"python3", "./calculator.py", "--debug">>
        /\ case \in {1, 3, 5, 9} => Len(invocations) <= 1
        /\ case = 25 => Len(invocations) <= 2
        /\ lastlog = SuccessLog =>
              /\ calls = RunSpecsOf(case)
              /\ Len(compared) = Len(calls)
              /\ \A k \in 1..Len(calls) : compared[k].file = calls[k].file

C4_Witness ==
    /\ case = 25
    /\ lastlog = SuccessLog
    /\ Len(calls) = 2
    /\ Len(invocations) = 2

\* C5: the step that finds a non-zero exit status ends the harness with a
\* non-zero exit status: it runs no further command, reads no fixture (the
\* fixture of the check_run under way is never compared) and starts no
\* further check_run, and nothing happens after the harness has exited.
C5_NonZeroExitAborts ==
    [][ /\ (pc = "checkrc" /\ rc # 0) =>
              /\ pc' = "exited"
              /\ exitStatus' > 0
              /\ UNCHANGED <<invocations, compared, calls>>
              /\ Len(compared') = Len(calls') - 1
        /\ pc # "exited" ]_vars

C5_Witness ==
    /\ pc = "exited"
    /\ lastlog = NonZeroLog
    /\ exitStatus = 1
    /\ Len(calls) = 3
    /\ Len(invocations) = 42
    /\ Len(compared) = 2

AllExitedZero == \A k \in 1..Len(invocations) : invocations[k].returncode = 0
AllEqual      == \A k \in 1..Len(compared) : compared[k].equal
Passed        == exitStatus = 0 /\ lastlog = SuccessLog

\* C6: the harness ends in PASS (SUCCESS logged, exit status 0) exactly when
\* the mask is one of the nine of the table, every invocation of every
\* RunSpec of its scenario exited zero and every RunSpec's output equalled
\* its fixture; every other run ends with a non-zero exit status, on an
\* unrecognized mask, a non-zero invocation or a mismatch.
C6_PassIffAllGood ==
    pc = "exited" =>
        /\ Passed <=> /\ case \in KnownMasks
                      /\ Len(compared) = Len(RunSpecsOf(case))
                      /\ AllExitedZero
                      /\ AllEqual
        /\ ~Passed =>
              /\ exitStatus > 0
              /\ \/ case \in (0..63) \ KnownMasks /\ lastlog = NoScenarioLog
                 \/ ~AllExitedZero /\ lastlog = NonZeroLog
                 \/ ~AllEqual /\ lastlog = MismatchLog

FunctionResults == SelectSeq(results, LAMBDA r : r.probe.kind = "function")

\* C7: when loading the target fails, whether its top-level code raises or
\* asks for process exit, every load attempt made by check_for_function ends
\* with check_for_function returning false, and the harness does not end
\* during detection.
C7_LoadFailureIsAbsence ==
    loading # "ok" =>
        /\ Len(FunctionResults) = loads
        /\ \A k \in 1..Len(FunctionResults) : ~FunctionResults[k].found
        /\ pc = "exited" => case # -1

\* C8: for a target that fails to load, the harness ends only in the
\* "unrecognized scenario" failure with exit status 1: have_original and
\* have_divmul are false, the mask is one of 0, 4, 8, ..., 60, and no
\* command was run.
C8_UnloadableTargetIsUnrecognized ==
    (loading # "ok" /\ pc = "exited") =>
        /\ case \in {4 * k : k \in 0..15}
        /\ ~have["have_original"]
        /\ ~have["have_divmul"]
        /\ \A k \in 1..Len(FunctionResults) : ~FunctionResults[k].found
        /\ lastlog = NoScenarioLog
        /\ exitStatus = 1
        /\ invocations = << >>

\* 1 for the plain RunSpec, 2 for the debug one, 3 for the seeded one
Kind(call) == IF call.args = << >> THEN 1 ELSE IF call.args = <<"--debug">> THEN 2 ELSE 3

RECURSIVE Repetitions(_)
Repetitions(cs) == IF cs = << >> THEN 0 ELSE Head(cs).count + Repetitions(Tail(cs))

\* C9: the check_runs of a scenario are started in the order plain, debug,
\* seeded, each only after every earlier one compared equal to its fixture;
\* a mismatch is the last comparison made: it ends the harness with a
\* non-zero exit status, and no command beyond those of the mismatching
\* check_run was run.
C9_FirstMismatchTerminates ==
    /\ \A k \in 1..Len(calls) : Kind(calls[k]) = k
    /\ Len(compared) \in {Len(calls) - 1, Len(calls)}
    /\ \A k \in 1..(Len(calls) - 1) : compared[k].equal
    /\ \A k \in 1..Len(compared) :
          ~compared[k].equal =>
              /\ k = Len(calls)
              /\ pc = "exited"
              /\ exitStatus > 0
              /\ lastlog = MismatchLog
              /\ Len(invocations) = Repetitions(calls)

C9_Witness ==
    /\ case \in SeededMasks
    /\ Len(calls) = 2
    /\ Len(compared) = 2
    /\ compared[1].equal
    /\ ~compared[2].equal
    /\ pc = "exited"

StripEach(list) == [k \in 1..Len(list) |-> Strip(list[k])]

\* C10 as claimed: the output compared is the strip of the newline-join of
\* the stripped outputs of all invocations, one segment for each invocation,
\* those with empty output included.
C10_OneSegmentPerInvocation ==
    pc = "compare" => actual_output = Strip(Join(StripEach(captured)))

NonEmpty(list) == SelectSeq(list, LAMBDA o : o # << >>)

\* C10 as amended: every invocation of the RunSpec has been captured, and the
\* output compared is the strip of the newline-join, in invocation order, of
\* the stripped outputs of the invocations that printed something; an
\* invocation that printed nothing gives no segment (one that printed only
\* whitespace gives an empty segment).
C10_OneSegmentPerNonEmptyOutput ==
    pc = "compare" =>
        /\ Len(captured) = count
        /\ actual_output = Strip(Join(StripEach(NonEmpty(captured))))

C10_Witness ==
    /\ pc = "compare"
    /\ Len(captured) = 100
    /\ captured[1] = <<"x", "\n">>
    /\ captured[2] = << >>
    /\ actual_output # << >>

StringResults == SelectSeq(results, LAMBDA r : r.probe.kind = "string")

\* C11: the source file is read from disk at most once in a harness run,
\* at the first check_for_string call, and every check_for_string call,
\* the later ones included, returns whether its literal occurs in the text
\* that first read returned, whatever the file holds by then.
C11_SourceReadOnce ==
    /\ Len(fileReads) <= 1
    /\ StringResults # << >> =>
          /\ Len(fileReads) = 1
          /\ source \in DOMAIN _file_string_cache
          /\ \A k \in 1..Len(StringResults) :
                StringResults[k].found = (StringResults[k].probe.arg \in fileReads[1])

\* "--seed" was removed from the file after the first read and is still found
C11_Witness ==
    /\ edits = 1
    /\ Len(fileReads) = 1
    /\ "--seed" \in fileReads[1]
    /\ "--seed" \notin literals
    /\ \E k \in 1..Len(StringResults) :
          StringResults[k].probe.arg = "--seed" /\ StringResults[k].found

\* what a probe of the target finds: a function of a module that loads, a
\* literal of the source text
HasFunction(name) == loading = "ok" /\ name \in defined
HasLiteral(text)  == text \in literals

\* the flag table
FlagTable ==
    [ have_original |-> HasFunction("add") /\ HasFunction("subtract") /\ HasFunction("main"),
      have_divmul   |-> HasFunction("divide") /\ HasFunction("multiply"),
      have_addsub   |-> HasLiteral("Adding then subtracting!") /\ HasLiteral("Subtracting then adding!"),
      have_logging  |-> HasLiteral("import logging") /\ HasLiteral("logging.basicConfig"),
      have_debug    |-> HasLiteral("import argparse") /\ HasLiteral("--debug"),
      have_seed     |-> HasLiteral("import argparse") /\ HasLiteral("--seed") ]

\* C12: every flag main() has assigned equals the conjunction the flag
\* table gives for it, computed from the probe results alone: skipped
\* operands never change a flag, and no flag depends on another flag (so
\* have_seed is true with the argparse import and "--seed" but no "--debug").
C12_FlagsAreTheTableConjunctions ==
    pc \in {"detect", "case"} =>
        \A f \in DOMAIN have : have[f] = FlagTable[f]

C12_Witness ==
    /\ pc = "case"
    /\ have["have_seed"]
    /\ ~have["have_debug"]
    /\ "--debug" \notin literals
    /\ ~have["have_original"]
    /\ "add" \in defined

Distinct(seq) == Cardinality({seq[k] : k \in 1..Len(seq)}) = Len(seq)

\* C14: a harness run makes at most 102 invocations of the target and ends
\* in one of two terminal states, PASS (SUCCESS logged, exit status 0) or
\* FAIL (a fatal failure logged, non-zero exit status); nothing is retried:
\* no function probe, no command and no fixture comparison is made twice,
\* and a fatal failure is the last step of the run.
C14_TerminalPassOrFail ==
    /\ Len(invocations) <= 102
    /\ pc = "exited" =>
          \/ Passed
          \/ exitStatus > 0 /\ lastlog \in {NoScenarioLog, NonZeroLog, MismatchLog}
    /\ lastlog \in {NoScenarioLog, NonZeroLog, MismatchLog} => pc = "exited"
    /\ pc \in {"detect", "case", "call", "join", "exited"} =>
          /\ Distinct([k \in 1..Len(FunctionResults) |-> FunctionResults[k].probe])
          /\ Distinct([k \in 1..Len(invocations) |-> invocations[k].cmd])
          /\ Distinct([k \in 1..Len(compared) |-> compared[k].file])

\* C18: every load attempt is one function probe that returns, a probe
\* that returned false is the last one of its flag, and once detection is
\* over the target was loaded at least 2 and at most 5 times: exactly 2
\* times when it fails to load, exactly 5 times when it defines add,
\* subtract, main, divide and multiply.
C18_TwoToFiveLoads ==
    /\ \A k \in 1..(Len(results) - 1) :
          ~results[k].found => results[k + 1].flag # results[k].flag
    /\ pc # "detect" =>
          /\ loads = Len(FunctionResults)
          /\ loads \in 2..5
          /\ loading # "ok" => loads = 2
          /\ (loading = "ok" /\ defined = FunctionNames) => loads = 5

Running == pc \in {"call", "run", "checkrc", "capture", "join", "compare"}

\* C15: a flag, once assigned, and the mask, once computed, never change;
\* probes are issued only during detection, the function probes before all
\* literal probes; the mask is computed when all six flags are assigned,
\* the scenario is selected when the mask is computed, both before the
\* first invocation; while check_runs are under way no probe is issued, the
\* target is not loaded, the source is not read and no flag or mask changes.
C15_FlagsAndMaskDerivedOnce ==
    [][ /\ \A f \in DOMAIN have : f \in DOMAIN have' /\ have'[f] = have[f]
        /\ case # -1 => case' = case
        /\ results' # results =>
              /\ pc = "detect" /\ case = -1 /\ plan = << >> /\ invocations = << >>
              /\ results'[Len(results')].probe.kind = "function" => StringResults = << >>
        /\ case' # case =>
              /\ DOMAIN have = FlagSet
              /\ pc # "detect" /\ plan = << >> /\ invocations = << >>
        /\ plan' # plan => (case # -1 /\ invocations = << >>)
        /\ invocations' # invocations =>
              (case # -1 /\ plan # << >> /\ DOMAIN have = FlagSet)
        /\ Running => UNCHANGED <<have, case, results, loads, fileReads, _file_string_cache>>
      ]_vars

C15_Witness ==
    /\ pc = "compare"
    /\ case = 63
    /\ Len(results) = 13
    /\ Len(invocations) = 102

HasArg(cmd, a) == \E j \in 1..Len(cmd) : cmd[j] = a
Bit(m, w) == (m \div w) % 2 = 1

\* C16: a check_run is started only with have_original true (bit 1 of the
\* mask); a command carries "--debug" only when have_debug is true (bit 16)
\* and carries "--seed <n>" only when have_seed and have_debug are both true
\* (bits 32 and 16); the same holds of the argument templates of the
\* check_runs started.  (Commands are stated of the one run last: every
\* command is the last one in the state its run leads to.)
C16_FlagsPassedOnlyWhenDetected ==
    calls # << >> =>
        /\ DOMAIN have = FlagSet
        /\ have["have_original"] /\ Bit(case, 1)
        /\ \A k \in 1..Len(calls) :
              /\ HasArg(calls[k].args, "--debug") => (have["have_debug"] /\ Bit(case, 16))
              /\ HasArg(calls[k].args, ITERATION) =>
                    (have["have_seed"] /\ have["have_debug"] /\ Bit(case, 32) /\ Bit(case, 16))
        /\ invocations # << >> =>
              LET last == invocations[Len(invocations)].cmd
              IN  /\ HasArg(last, "--debug") => have["have_debug"]
                  /\ HasArg(last, "--seed") => (have["have_seed"] /\ have["have_debug"])
                  /\ Len(last) > 2 => (HasArg(last, "--debug") /\ Len(last) \in {3, 5})

\* mask 25: "--debug" is passed, "--seed" never
C16_Witness ==
    /\ case = 25
    /\ lastlog = SuccessLog
    /\ Len(invocations) = 2
    /\ HasArg(invocations[2].cmd, "--debug")
    /\ ~have["have_seed"]

\* the check_run started last is still in its loop or about to compare
InCheckRun == pc \in {"run", "checkrc", "capture", "join", "compare"}

\* C17: within one RunSpec the fixture is read and compared exactly once,
\* and only after all the RunSpec's repetitions have completed with exit
\* status zero: while a check_run is under way the fixtures compared are
\* those of the check_runs before it, one each and in order; a comparison is
\* on record for the check_run started last only when every repetition of
\* every check_run so far has been invoked, each with exit status zero, and
\* the last one's outputs have all been captured; so a mismatch is reported
\* only after the last repetition (the 100th of the seeded RunSpec).
C17_ComparedOnceAfterAllRepetitions ==
    /\ Len(compared) <= Len(calls)
    /\ \A k \in 1..Len(compared) : compared[k].file = calls[k].file
    /\ InCheckRun => Len(compared) = Len(calls) - 1
    /\ (calls # << >> /\ Len(compared) = Len(calls)) =>
          /\ Len(invocations) = Repetitions(calls)
          /\ AllExitedZero
          /\ Len(captured) = calls[Len(calls)].count
    /\ lastlog = MismatchLog =>
          /\ Len(compared) = Len(calls)
          /\ ~compared[Len(compared)].equal
          /\ Len(invocations) = Repetitions(calls)

\* the seeded RunSpec fails on its fixture although its first invocation
\* already printed something the fixture does not hold: all 100 seeds ran
C17_Witness ==
    /\ lastlog = MismatchLog
    /\ Len(calls) = 3
    /\ Len(compared) = 3
    /\ calls[3].count = 100
    /\ Len(invocations) = 102
    /\ Len(captured) = 100
    /\ captured[1] # << >>
    /\ captured[1] # captured[2]
    /\ ~compared[3].equal

----------------------------------------------------------------------------
TypeOK ==
    /\ pc \in {"detect", "case", "dispatch", "call", "run", "checkrc", "capture",
               "join", "compare", "exited"}
    /\ case \in -1..63
    /\ exitStatus \in {-1, 0, 1}
====
